---- MODULE Spec2Model ----
(***************************************************************************)
(* Model of the order fragmentation form (OrderFragmentForm), in its two   *)
(* variants: the strict one (total of the drafts must equal the product's  *)
(* quantity) and the partial one (total in (0, T]), and of the split       *)
(* dialog (OrderSplitDialog), in its two variants: the simple one (a       *)
(* quantity is limited by the product's quantity) and the tracked one (a   *)
(* quantity is limited by what the order's fragments leave available).     *)
(* The form and the dialog are separate components: Spec and SpecTracked   *)
(* run the form (SpecCall with handleSave also called as a function),      *)
(* SpecDialog and SpecDialogFair run the dialog.                            *)
(*                                                                         *)
(* A state is what one mounted form holds after a render is committed: the *)
(* props (initialFragments), the useState cells (selectedProductId,        *)
(* fragments) and what the latest handler handed to its callbacks (onSave, *)
(* toast).  A handler and the render it causes are one step; the effect a  *)
(* render leaves to run, and the render that effect causes, are a later    *)
(* step (EffectTask, RunEffect), and the handlers of the committed render   *)
(* can run before it.  The effect only queues its setFragments(seed); a    *)
(* handler that runs before that update is rendered queues its own update  *)
(* prev => ... behind it: the handler's render applies it to the drafts on *)
(* screen, the later render applies it to the seed.                        *)
(* The caller can render the form again at default priority or inside a   *)
(* click (ParentRender).                                                   *)
(*                                                                         *)
(* Monetary values are exact fractions [num, den]: (q / T) * V is kept as  *)
(* the reduced fraction q*V / T, floating-point rounding is not modelled.  *)
(* Dates are day numbers.  An absent (undefined) field of a fragment is an *)
(* absent field of the record.  Identifiers are tuples.                    *)
(***************************************************************************)
EXTENDS Integers, Sequences, FiniteSets, TLC

VARIABLES
    variant,                \* "strict" | "partial": which OrderFragmentForm
    initialFragmentsGiven,  \* whether the caller passes initialFragments
    initialFragments,       \* the prop (<<>> when not passed)
    selectedProductId,      \* useState
    fragments,              \* useState: the drafts
    effectPending,          \* the effect is to run, or the setFragments it queued is
                            \* not rendered yet
    queued,                 \* << d >>: the effect has run and the updates queued for
                            \* the drafts render d; << >>: nothing is queued
    edits,                  \* the handlers' updates in the drafts on screen since
                            \* they were seeded
    rebased,                \* the handlers' updates in the queued drafts
    saveCalled,             \* the last handler invoked onSave
    onSaveArg,              \* the list it handed to onSave
    toastMsg,               \* the notification it emitted ("none" if none)
    tracking,               \* whether the history below is kept
    entered,                \* history: the drafts as the user's latest edit left
                            \* them, the product they were edited for and whether
                            \* another product was selected since (<<>> if none)
    dialog,                 \* "simple" | "tracked": which OrderSplitDialog
    order,                  \* the order prop
    open,                   \* the open prop, held by the caller
    quantities,             \* useState: Record<string, number>
    loading,                \* useState
    inFlight,               \* the onSplit promises that have not settled yet
    onSplitArg,             \* the list handed to the onSplit that is in flight
    alertMsg                \* the alert of the latest handler ("none" if none)

formVars == << variant, initialFragmentsGiven, initialFragments, selectedProductId,
               fragments, effectPending, queued, edits, rebased, saveCalled, onSaveArg, toastMsg, tracking, entered >>

dialogVars == << dialog, order, open, quantities, loading, inFlight, onSplitArg, alertMsg >>

vars == << formVars, dialogVars >>

----------------------------------------------------------------------------
(* Bounds *)

MaxEdits == 2       \* no further update of the drafts is taken when they hold this
                    \* many since they were seeded
MaxAhead == 2       \* addFragment is not taken when its date would lie further ahead
MaxRecorded == 3    \* the caller records emitted fragments in the order up to this many

----------------------------------------------------------------------------
(* The environment: today, the order and its products *)

Today == 10

OrderId == "o1"

Products ==
    << [id |-> "pA", product_name |-> "A", size |-> "M", color |-> "blue",
        quantity |-> 100, total_price |-> 500],
       [id |-> "pB", product_name |-> "B", size |-> "L", color |-> "red",
        quantity |-> 10, total_price |-> 75],
       [id |-> "pC", product_name |-> "C", size |-> "S", color |-> "grey",
        quantity |-> 0, total_price |-> 40] >>

ProductIds == { Products[i].id : i \in 1..Len(Products) }

\* Persisted fragments the caller may pass, in the order it passes them.
PersistedFragments ==
    << [id |-> <<"f1">>, orderId |-> OrderId, productId |-> "pA", fragmentNumber |-> 1,
        quantity |-> 40, scheduledDate |-> Today - 3, status |-> "in_progress",
        progress |-> 50, value |-> [num |-> 7, den |-> 1]],
       [id |-> <<"f2">>, orderId |-> OrderId, productId |-> "pA", fragmentNumber |-> 2,
        quantity |-> 60, status |-> "pending",
        progress |-> 0, value |-> [num |-> 300, den |-> 1]],
       [id |-> <<"f3">>, orderId |-> OrderId, productId |-> "pB", fragmentNumber |-> 1,
        quantity |-> 4, scheduledDate |-> Today, status |-> "pending",
        progress |-> 0, value |-> [num |-> 30, den |-> 1]] >>

\* What the quantity input and the calendar can deliver to updateFragment.
QuantityInputs == {-5, 0, 15}
DateInputs == {Today}

----------------------------------------------------------------------------
(* Helpers *)

\* f[k], or d when the field is absent (undefined)
Get(f, k, d) == IF k \in DOMAIN f THEN f[k] ELSE d

\* { ...f, [k]: v }
With(f, k, v) == (k :> v) @@ f

RECURSIVE GCD(_, _)
GCD(a, b) == IF b = 0 THEN a ELSE GCD(b, a % b)

Abs(n) == IF n < 0 THEN -n ELSE n

\* the number n / d (d > 0) as a reduced fraction
Frac(n, d) ==
    LET g == GCD(Abs(n), d)
    IN  [num |-> n \div g, den |-> d \div g]

----------------------------------------------------------------------------
(* The component's derived values (recomputed on every render) *)

\* products.find((p) => p.id === selectedProductId)
selectedProduct(sel) ==
    LET hits == { i \in 1..Len(Products) : Products[i].id = sel }
    IN  IF hits = {} THEN [id |-> "undefined"]
        ELSE Products[CHOOSE i \in hits : \A j \in hits : i <= j]

\* selectedProduct?.quantity || 0
productTotalQuantity(sel) == Get(selectedProduct(sel), "quantity", 0)

\* selectedProduct?.total_price || 0
productTotalValue(sel) == Get(selectedProduct(sel), "total_price", 0)

RECURSIVE productFragments(_, _)
\* initialFragments.filter((f) => f.productId === selectedProductId)
productFragments(init, sel) ==
    IF init = << >> THEN << >>
    ELSE IF Head(init).productId = sel
         THEN << Head(init) >> \o productFragments(Tail(init), sel)
         ELSE productFragments(Tail(init), sel)

\* otherFragments without the filter
M_otherFragments(init, sel) == init

RECURSIVE otherFragments(_, _)
\* initialFragments.filter((f) => f.productId !== selectedProductId)
otherFragments(init, sel) ==
    IF init = << >> THEN << >>
    ELSE IF Head(init).productId # sel
         THEN << Head(init) >> \o otherFragments(Tail(init), sel)
         ELSE otherFragments(Tail(init), sel)

\* `temp-${Math.random()...}`: the random part is not modelled
TempId == << "temp" >>

\* the map callback of the initializer: the persisted fragment with its date
\* normalised (and, in the partial variant, a _tempId)
seedFromPersisted(v, f) ==
    LET dated == With(f, "scheduledDate", Get(f, "scheduledDate", Today))
    IN  IF v = "partial"
        THEN With(dated, "_tempId", IF Get(f, "id", << >>) # << >> THEN f.id ELSE TempId)
        ELSE dated

\* Math.floor in place of Math.ceil
M_defaultQuantity(T) ==
    LET c == T \div 4
    IN  IF c > 1 THEN c ELSE 1

\* Math.max(1, Math.ceil(productTotalQuantity / 4))
defaultQuantity(T) ==
    LET c == (T + 3) \div 4
    IN  IF c > 1 THEN c ELSE 1

\* the single default draft
defaultDraft(v, sel) ==
    LET d == [fragmentNumber |-> 1,
              quantity |-> defaultQuantity(productTotalQuantity(sel)),
              scheduledDate |-> Today,
              status |-> "pending",
              progress |-> 0,
              productId |-> sel]
    IN  IF v = "partial" THEN With(d, "_tempId", TempId) ELSE d

\* the useState initializer and the body of the effect
Initialize(v, init, sel) ==
    LET pf == productFragments(init, sel)
    IN  IF Len(pf) > 0
        THEN [i \in 1..Len(pf) |-> seedFromPersisted(v, pf[i])]
        ELSE << defaultDraft(v, sel) >>

\* calculateFragmentValue with total quantity and total value exchanged
M_calculateFragmentValue(quantity, sel) ==
    IF productTotalQuantity(sel) = 0 THEN [num |-> 0, den |-> 1]
    ELSE Frac(quantity * productTotalQuantity(sel), productTotalValue(sel))

\* calculateFragmentValue
calculateFragmentValue(quantity, sel) ==
    IF productTotalQuantity(sel) = 0 THEN [num |-> 0, den |-> 1]
    ELSE Frac(quantity * productTotalValue(sel), productTotalQuantity(sel))

RECURSIVE getTotalFragmentQuantity(_)
\* fragments.reduce((sum, fragment) => sum + (fragment.quantity || 0), 0)
getTotalFragmentQuantity(frags) ==
    IF frags = << >> THEN 0
    ELSE Get(Head(frags), "quantity", 0) + getTotalFragmentQuantity(Tail(frags))

\* everyFilled without its tests of the quantity
M_everyFilled(frags) ==
    \A i \in 1..Len(frags) : "scheduledDate" \in DOMAIN frags[i]

\* fragments.every((f) => f.quantity && f.quantity > 0 && f.scheduledDate)
everyFilled(frags) ==
    \A i \in 1..Len(frags) :
        /\ Get(frags[i], "quantity", 0) # 0
        /\ Get(frags[i], "quantity", 0) > 0
        /\ "scheduledDate" \in DOMAIN frags[i]

\* isValidStrict with <= for ===
M_isValidStrict(frags, sel) ==
    /\ getTotalFragmentQuantity(frags) <= productTotalQuantity(sel)
    /\ everyFilled(frags)

\* isValid of the first (strict) form
isValidStrict(frags, sel) ==
    /\ getTotalFragmentQuantity(frags) = productTotalQuantity(sel)
    /\ everyFilled(frags)

\* isValidPartial without the upper limit
M_isValidPartial(frags, sel) ==
    /\ getTotalFragmentQuantity(frags) > 0
    /\ everyFilled(frags)

\* isValid of the second (partial) form
isValidPartial(frags, sel) ==
    /\ getTotalFragmentQuantity(frags) > 0
    /\ getTotalFragmentQuantity(frags) <= productTotalQuantity(sel)
    /\ everyFilled(frags)

isValid(v, frags, sel) ==
    IF v = "strict" THEN isValidStrict(frags, sel) ELSE isValidPartial(frags, sel)

----------------------------------------------------------------------------
(* The handlers' computations *)

\* the draft addFragment's update appends to prev; frags and sel are the
\* drafts and the selection of the render the handler belongs to.  strict:
\* the date is the last draft's date plus one day (today without a draft);
\* partial: the same, moved to today when it lies before today, and the
\* draft carries _tempId and productId.
newDraft(v, prev, frags, sel) ==
    LET lastFragment == frags[Len(frags)]
        nextDate == IF Len(frags) > 0 /\ "scheduledDate" \in DOMAIN lastFragment
                    THEN lastFragment.scheduledDate + 1
                    ELSE Today
        base == [fragmentNumber |-> Len(prev) + 1,
                 quantity |-> 1,
                 status |-> "pending",
                 progress |-> 0]
    IN  IF v = "strict"
        THEN With(base, "scheduledDate", nextDate)
        ELSE With(With(With(base, "scheduledDate",
                            IF nextDate < Today THEN Today ELSE nextDate),
                       "_tempId", TempId),
                  "productId", sel)

\* addFragment: setFragments((prev) => [...prev, draft])
addFragment(v, prev, frags, sel) == Append(prev, newDraft(v, prev, frags, sel))

\* prev.filter((_, i) => i !== index), index counted from 1 here
withoutIndex(frags, index) ==
    [i \in 1..(Len(frags) - (IF index \in 1..Len(frags) THEN 1 ELSE 0)) |->
        IF i < index THEN frags[i] ELSE frags[i + 1]]

\* removeFragment: the update prev => prev.filter(...) is queued only when
\* the drafts of the handler's render, frags, are more than one
removeFragment(prev, frags, index) ==
    IF Len(frags) > 1 THEN withoutIndex(prev, index) ELSE prev

\* updateFragment without the test i === index
M_updateFragment(frags, index, field, value) ==
    [i \in 1..Len(frags) |-> With(frags[i], field, value)]

\* updateFragment: prev.map((fragment, i) => i === index ? {...fragment, [field]: value} : fragment)
updateFragment(frags, index, field, value) ==
    [i \in 1..Len(frags) |-> IF i = index THEN With(frags[i], field, value) ELSE frags[i]]

\* fragment.id || `${baseOrderId}-frag-${fragment.fragmentNumber || index + 1}-${Date.now()}`
\* (index counted from 1 here, so index + 1 of the code is index)
fragmentId(fragment, index, now) ==
    IF Get(fragment, "id", << >>) # << >> THEN fragment.id
    ELSE << OrderId, "frag",
            IF Get(fragment, "fragmentNumber", 0) # 0 THEN fragment.fragmentNumber ELSE index,
            now >>

\* finalize with the value taken from the draft when it has one
M_finalize(v, fragment, index, sel, now) ==
    [id |-> fragmentId(fragment, index, now),
     orderId |-> OrderId,
     productId |-> sel,
     fragmentNumber |-> IF Get(fragment, "fragmentNumber", 0) # 0
                        THEN fragment.fragmentNumber ELSE index,
     quantity |-> Get(fragment, "quantity", 0),
     scheduledDate |-> Get(fragment, "scheduledDate", Today),
     status |-> Get(fragment, "status", "pending"),
     progress |-> Get(fragment, "progress", 0),
     value |-> Get(fragment, "value",
                   calculateFragmentValue(Get(fragment, "quantity", 0), sel))]

\* the map callback of handleSave
finalize(v, fragment, index, sel, now) ==
    LET common ==
            [id |-> fragmentId(fragment, index, now),
             orderId |-> OrderId,
             productId |-> sel,
             fragmentNumber |-> IF Get(fragment, "fragmentNumber", 0) # 0
                                THEN fragment.fragmentNumber ELSE index,
             quantity |-> Get(fragment, "quantity", 0),
             scheduledDate |-> Get(fragment, "scheduledDate", Today),
             status |-> Get(fragment, "status", "pending"),
             progress |-> Get(fragment, "progress", 0),
             value |-> calculateFragmentValue(Get(fragment, "quantity", 0), sel)]
        p == selectedProduct(sel)
    IN  IF v = "strict" THEN common
        ELSE [productName |-> Get(p, "product_name", ""),
              size |-> Get(p, "size", ""),
              color |-> Get(p, "color", ""),
              assignedOperator |-> Get(fragment, "assignedOperator", "undefined"),
              startedAt |-> Get(fragment, "startedAt", "undefined"),
              completedAt |-> Get(fragment, "completedAt", "undefined")] @@ common

\* [...otherFragments, ...currentProductFragments]; clock[i] is what Date.now()
\* returns while the i-th draft is mapped
finalFragments(v, init, frags, sel, clock) ==
    otherFragments(init, sel)
        \o [i \in 1..Len(frags) |-> finalize(v, frags[i], i, sel, clock[i])]

\* the first test of the partial form with < in place of ===
M_errorMsg(v, frags, sel) ==
    IF v = "strict" THEN "must_equal_total"
    ELSE IF getTotalFragmentQuantity(frags) < 0 THEN "zero_total"
    ELSE IF getTotalFragmentQuantity(frags) > productTotalQuantity(sel) THEN "excess_total"
    ELSE "required_fields"

\* the error handleSave reports: one message in the strict form, three in the
\* partial one
errorMsg(v, frags, sel) ==
    IF v = "strict" THEN "must_equal_total"
    ELSE IF getTotalFragmentQuantity(frags) = 0 THEN "zero_total"
    ELSE IF getTotalFragmentQuantity(frags) > productTotalQuantity(sel) THEN "excess_total"
    ELSE "required_fields"

\* the readings of Date.now() during one save, one per draft: two
\* milliseconds, in any order (the clock may be set back between two readings)
Clocks(n) == [1..n -> {0, 1}]

\* the readings while handleSave maps the drafts frags: fragment.id || `...`
\* reads Date.now() for a draft without an id only (0 stands where it is
\* not read)
saveClocks(frags) ==
    { clock \in Clocks(Len(frags)) :
        \A i \in 1..Len(frags) : Get(frags[i], "id", << >>) # << >> => clock[i] = 0 }

----------------------------------------------------------------------------
(* The split dialog: its orders and its functions *)

\* The orders the caller may pass.  A line of an order has an id of its own
\* and, optionally, the product_id of the catalogue product it is about.
\* order1 has two lines about the same product and one fragment of it,
\* which is more than its second line has; order2 has no fragments field;
\* order3 has two lines about the same product and no fragment yet.
Orders ==
    { [id |-> "o1",
       products |->
         << [id |-> "l1", product_id |-> "pX", product_name |-> "X", size |-> "M",
             color |-> "blue", quantity |-> 5, total_price |-> 75],
            [id |-> "l2", product_id |-> "pX", product_name |-> "X", size |-> "L",
             color |-> "blue", quantity |-> 2, total_price |-> 30],
            [id |-> "l3", product_name |-> "Z", size |-> "S",
             color |-> "grey", quantity |-> 0, total_price |-> 40] >>,
       fragments |->
         << [id |-> <<"g1">>, order_id |-> "o1", product_id |-> "pX", fragment_number |-> 1,
             quantity |-> 3, status |-> "pending", progress |-> 0] >>],
      [id |-> "o2",
       products |->
         << [id |-> "m1", product_name |-> "U", size |-> "M",
             color |-> "red", quantity |-> 4, total_price |-> 10],
            [id |-> "m2", product_name |-> "V", size |-> "L",
             color |-> "red", quantity |-> 3, total_price |-> 9] >>],
      [id |-> "o3",
       products |->
         << [id |-> "n1", product_id |-> "pY", product_name |-> "Y", size |-> "M",
             color |-> "green", quantity |-> 2, total_price |-> 6],
            [id |-> "n2", product_id |-> "pY", product_name |-> "Y", size |-> "L",
             color |-> "green", quantity |-> 2, total_price |-> 8] >>,
       fragments |-> << >>] }

\* What the number input can deliver to handleQuantityChange (e.target.value).
TextInputs == {"", "-5", "3"}

\* parseInt(value): << >> for NaN, << n >> for the number n
parseInt(value) ==
    CASE value = "-5" -> << -5 >>
      [] value = "0" -> << 0 >>
      [] value = "2" -> << 2 >>
      [] value = "3" -> << 3 >>
      [] value = "15" -> << 15 >>
      [] OTHER -> << >>

\* parseInt(value) || 0
parseIntOrZero(value) ==
    IF Len(parseInt(value)) = 0 THEN 0 ELSE parseInt(value)[1]

Max(a, b) == IF a >= b THEN a ELSE b
Min(a, b) == IF a <= b THEN a ELSE b

\* useState<Record<string, number>>({})
NoQuantities == << >>

\* order.products, order.fragments (optional chaining: absent counts as empty)
productsOf(ord) == Get(ord, "products", << >>)
fragmentsOf(ord) == Get(ord, "fragments", << >>)

\* quantities[product.id] || 0
currentQty(q, id) == IF id \in DOMAIN q THEN q[id] ELSE 0

\* product.product_id || product.id
actualProductId(product) ==
    IF Get(product, "product_id", "") # "" THEN product.product_id ELSE product.id

\* order.products?.find(p => p.id === productId || p.product_id === productId):
\* the position of the first such line, 0 if there is none
findProduct(ord, productId) ==
    LET hits == { i \in 1..Len(productsOf(ord)) :
                    \/ productsOf(ord)[i].id = productId
                    \/ Get(productsOf(ord)[i], "product_id", "") = productId }
    IN IF hits = {} THEN 0 ELSE CHOOSE i \in hits : \A j \in hits : i <= j

RECURSIVE alreadyFragmented(_, _)
\* order.fragments?.reduce((sum, f) => sum + (ids has f.product_id ? f.quantity : 0), 0) || 0
alreadyFragmented(frs, ids) ==
    IF Len(frs) = 0 THEN 0
    ELSE alreadyFragmented(SubSeq(frs, 1, Len(frs) - 1), ids)
           + (IF Get(frs[Len(frs)], "product_id", "") \in ids
              THEN frs[Len(frs)].quantity ELSE 0)

\* getAvailableQuantity (tracked dialog)
getAvailableQuantity(ord, productId) ==
    IF findProduct(ord, productId) = 0 THEN 0
    ELSE LET product == productsOf(ord)[findProduct(ord, productId)]
         IN product.quantity
              - alreadyFragmented(fragmentsOf(ord),
                                  {actualProductId(product), productId, product.id})

\* what handleSplit compares a line's quantity with
limitOf(d, ord, product) ==
    IF d = "simple" THEN product.quantity ELSE getAvailableQuantity(ord, product.id)

\* the number handleQuantityChange stores
clampQuantity(d, ord, productId, value) ==
    IF d = "simple" THEN Max(0, parseIntOrZero(value))
    ELSE Min(getAvailableQuantity(ord, productId), Max(0, parseIntOrZero(value)))

\* Object.values(quantities).some(q => q > 0)
hasQuantity(q) == \E id \in DOMAIN q : q[id] > 0

\* handleSplit without its second test
M_hasExcess(d, ord, q) == FALSE

\* order.products?.some(product => (quantities[product.id] || 0) > limit)
hasExcess(d, ord, q) ==
    \E i \in 1..Len(productsOf(ord)) :
        currentQty(q, productsOf(ord)[i].id) > limitOf(d, ord, productsOf(ord)[i])

\* (product.total_price / product.quantity) * qty; a division by 0 is kept as
\* a fraction with denominator 0
splitValue(product, qty) ==
    IF product.quantity = 0 THEN [num |-> product.total_price * qty, den |-> 0]
    ELSE Frac(product.total_price * qty, product.quantity)

\* one element of the list built by handleSplit; index counts from 0
splitFragment(ord, q, product, index, now) ==
    [id |-> << ord.id, "frag", now, index >>,
     order_id |-> ord.id,
     product_id |-> actualProductId(product),
     product_name |-> product.product_name,
     size |-> product.size,
     color |-> product.color,
     fragment_number |-> Len(fragmentsOf(ord)) + index + 1,
     quantity |-> currentQty(q, product.id),
     scheduled_date |-> Today,
     status |-> "pending",
     progress |-> 0,
     value |-> splitValue(product, currentQty(q, product.id))]

\* order.products?.filter(product => (quantities[product.id] || 0) > 0)
enteredProducts(ord, q) ==
    LET entry(product) == currentQty(q, product.id) > 0
    IN SelectSeq(productsOf(ord), entry)

\* the list with the position in order.products in place of the position in
\* the filtered list
M_splitFragments(ord, q, clock) ==
    [ i \in 1..Len(enteredProducts(ord, q)) |->
        splitFragment(ord, q, enteredProducts(ord, q)[i],
                      findProduct(ord, enteredProducts(ord, q)[i].id) - 1, clock[i]) ]

\* ...filter(...).map((product, index) => ({...})) || []
splitFragments(ord, q, clock) ==
    [ i \in 1..Len(enteredProducts(ord, q)) |->
        splitFragment(ord, q, enteredProducts(ord, q)[i], i - 1, clock[i]) ]

\* the order with the emitted fragments appended to its fragments
appendFragments(ord, emitted) ==
    With(ord, "fragments", fragmentsOf(ord) \o emitted)

\* the order the caller passes once onSplit(emitted) has resolved: the same
\* one, or the one with the emitted fragments recorded in it
ordersAfterSplit(ord, emitted) ==
    IF Len(fragmentsOf(ord)) + Len(emitted) <= MaxRecorded
    THEN {ord, appendFragments(ord, emitted)}
    ELSE {ord}

\* <Button onClick={handleSplit} disabled={loading}>, and the same for "Cancelar"
M_buttonDisabled(l) == FALSE
buttonDisabled(l) == l

----------------------------------------------------------------------------
(* The state machine *)

\* what the caller may pass as initialFragments: persisted fragments, in
\* order (pC has none, and without the prop no product has one)
InitialFragmentLists ==
    { PersistedFragments, << >> }

\* whether the effect is to run after the render an update causes: when it
\* was to run already, when the render changed its dependency
\* selectedProductId, or when initialFragments is the default [], a new
\* array in every render.  The render of the mount always leaves it to run
pendingAfterRender(given, pending, selChanged) == pending \/ selChanged \/ ~given

\* the drafts the queued updates render (none queued: << >>)
queuedDrafts(q) == IF q = << >> THEN << >> ELSE q[1]

\* what is queued for the drafts when the render of a handler's update
\* prev => ... is committed, update being that update applied to what was
\* queued.  A render of a click runs the effect it leaves (and one left
\* from before) at once, and the effect queues setFragments(seed) behind
\* what is queued; an update queued behind a seed that is not rendered yet
\* stays queued behind it
queuedAfterRender(v, init, given, sel, pending, q, update) ==
    IF ~given \/ (pending /\ q = << >>) THEN << Initialize(v, init, sel) >>
    ELSE IF ~pending THEN << >>
    ELSE << update >>

\* the handlers' updates in what is queued after such a render
rebasedAfterRender(given, pending, q, n) ==
    IF given /\ pending /\ q # << >> THEN n + 1 ELSE 0

InitForm ==
    /\ variant \in {"strict", "partial"}
    /\ initialFragmentsGiven \in BOOLEAN
    /\ initialFragments \in (IF initialFragmentsGiven THEN InitialFragmentLists ELSE { << >> })
    /\ selectedProductId = (IF Len(Products) > 0 THEN Products[1].id ELSE "")
    /\ fragments = Initialize(variant, initialFragments, selectedProductId)
    /\ effectPending = TRUE
    /\ queued = << >>
    /\ edits = 0
    /\ rebased = 0
    /\ saveCalled = FALSE
    /\ onSaveArg = << >>
    /\ toastMsg = "none"
    /\ entered = << >>

\* order: Order | null
NoOrder == << >>

\* no split dialog is on screen next to the form: if (!order) return null
DialogIdle ==
    /\ dialog = "simple"
    /\ order = NoOrder
    /\ open = FALSE
    /\ quantities = NoQuantities
    /\ loading = FALSE
    /\ inFlight = 0
    /\ onSplitArg = << >>
    /\ alertMsg = "none"

Init == InitForm /\ tracking = FALSE /\ DialogIdle

Props == << variant, initialFragmentsGiven, initialFragments, tracking >>

NoOutput ==
    /\ saveCalled' = FALSE
    /\ onSaveArg' = << >>
    /\ toastMsg' = "none"

\* the history after an edit of the drafts frags that left the drafts after:
\* the edit is one of the selected product's drafts when frags has a draft
\* seeded for it and no seeding that a change of the dependencies (or the
\* mount) asked for is to come
enteredBy(frags, after) ==
    IF /\ tracking
       /\ \E i \in 1..Len(frags) : Get(frags[i], "productId", "") = selectedProductId
       /\ effectPending => ~initialFragmentsGiven
    THEN [productId |-> selectedProductId, drafts |-> after, switched |-> FALSE]
    ELSE << >>

\* the Select's onValueChange: setSelectedProductId(value).  The render it
\* causes is committed with the drafts as they are; its effect queues the
\* seed of the product p behind what is queued.  The same value causes no
\* render
SwitchProduct(p) ==
    /\ selectedProductId' = p
    /\ UNCHANGED fragments
    /\ effectPending' = (IF p = selectedProductId THEN effectPending
                         ELSE pendingAfterRender(initialFragmentsGiven, effectPending, TRUE))
    /\ queued' = (IF p = selectedProductId THEN queued
                  ELSE << Initialize(variant, initialFragments, p) >>)
    /\ rebased' = (IF p = selectedProductId THEN rebased ELSE 0)
    /\ UNCHANGED edits
    /\ entered' = IF p = selectedProductId \/ entered = << >> THEN entered
                  ELSE [entered EXCEPT !.switched = TRUE]
    /\ NoOutput
    /\ UNCHANGED << Props, dialogVars >>

\* click on "Adicionar Fragmento"
AddDraft ==
    /\ edits < MaxEdits
    /\ newDraft(variant, fragments, fragments, selectedProductId).scheduledDate
         <= Today + MaxAhead
    /\ edits' = edits + 1
    /\ rebased' = rebasedAfterRender(initialFragmentsGiven, effectPending, queued, rebased)
    /\ fragments' = addFragment(variant, fragments, fragments, selectedProductId)
    /\ effectPending' = pendingAfterRender(initialFragmentsGiven, effectPending, FALSE)
    /\ queued' = queuedAfterRender(variant, initialFragments, initialFragmentsGiven,
                                   selectedProductId, effectPending, queued,
                                   addFragment(variant, queuedDrafts(queued), fragments,
                                               selectedProductId))
    /\ entered' = enteredBy(fragments, fragments')
    /\ NoOutput
    /\ UNCHANGED << Props, dialogVars, selectedProductId >>

\* click on the minus button of the draft at index; with one draft left
\* removeFragment sets no state and nothing is rendered
RemoveDraft(index) ==
    /\ Len(fragments) > 1 => edits < MaxEdits
    /\ edits' = (IF Len(fragments) > 1 THEN edits + 1 ELSE edits)
    /\ rebased' = (IF Len(fragments) > 1
                   THEN rebasedAfterRender(initialFragmentsGiven, effectPending, queued,
                                           rebased)
                   ELSE rebased)
    /\ fragments' = removeFragment(fragments, fragments, index)
    /\ effectPending' = (IF Len(fragments) > 1
                         THEN pendingAfterRender(initialFragmentsGiven, effectPending, FALSE)
                         ELSE effectPending)
    /\ queued' = (IF Len(fragments) > 1
                  THEN queuedAfterRender(variant, initialFragments, initialFragmentsGiven,
                                         selectedProductId, effectPending, queued,
                                         removeFragment(queuedDrafts(queued), fragments,
                                                        index))
                  ELSE queued)
    /\ entered' = (IF Len(fragments) > 1 THEN enteredBy(fragments, fragments') ELSE entered)
    /\ NoOutput
    /\ UNCHANGED << Props, dialogVars, selectedProductId >>

\* the quantity input (parseInt(e.target.value) || 0) or the calendar
\* (updateFragmentDate) of the draft at index
UpdateDraft(index, field, value) ==
    /\ edits < MaxEdits
    /\ edits' = edits + 1
    /\ rebased' = rebasedAfterRender(initialFragmentsGiven, effectPending, queued, rebased)
    /\ fragments' = updateFragment(fragments, index, field, value)
    /\ effectPending' = pendingAfterRender(initialFragmentsGiven, effectPending, FALSE)
    /\ queued' = queuedAfterRender(variant, initialFragments, initialFragmentsGiven,
                                   selectedProductId, effectPending, queued,
                                   updateFragment(queuedDrafts(queued), index, field,
                                                  value))
    /\ entered' = enteredBy(fragments, fragments')
    /\ NoOutput
    /\ UNCHANGED << Props, dialogVars, selectedProductId >>

\* handleSave without the return that follows the toast
M_handleSave ==
    /\ UNCHANGED fragments
    /\ UNCHANGED << selectedProductId, effectPending, queued, edits, rebased, entered,
                    Props, dialogVars >>
    /\ toastMsg' = IF ~isValid(variant, fragments, selectedProductId)
                   THEN errorMsg(variant, fragments, selectedProductId)
                   ELSE "none"
    /\ saveCalled' = TRUE
    /\ \E clock \in saveClocks(fragments) :
         onSaveArg' = finalFragments(variant, initialFragments, fragments,
                                     selectedProductId, clock)

\* handleSave: the function, on the state of the render it was created in
handleSave ==
    /\ UNCHANGED fragments
    /\ UNCHANGED << selectedProductId, effectPending, queued, edits, rebased, entered,
                    Props, dialogVars >>
    /\ IF ~isValid(variant, fragments, selectedProductId)
       THEN /\ toastMsg' = errorMsg(variant, fragments, selectedProductId)
            /\ saveCalled' = FALSE
            /\ onSaveArg' = << >>
       ELSE /\ toastMsg' = "none"
            /\ saveCalled' = TRUE
            /\ \E clock \in saveClocks(fragments) :
                 onSaveArg' = finalFragments(variant, initialFragments, fragments,
                                             selectedProductId, clock)

\* <Button onClick={handleSave} disabled={!isValid()}>
saveDisabled(v, frags, sel) == ~isValid(v, frags, sel)

\* click on "Salvar Fragmentacao": the button takes the click when it is
\* not disabled
HandleSave ==
    /\ ~saveDisabled(variant, fragments, selectedProductId)
    /\ handleSave

\* the drafts of the render of what is queued: the seed the effect queues
\* when it has not run yet, else the queued drafts
renderedDrafts(v, init, sel, q) ==
    IF q = << >> THEN Initialize(v, init, sel) ELSE q[1]

\* the task of the effect that a render not caused by a click left to run:
\* setFragments(seed) is queued, nothing is rendered yet
EffectTask ==
    /\ effectPending
    /\ queued = << >>
    /\ queued' = << Initialize(variant, initialFragments, selectedProductId) >>
    /\ rebased' = 0
    /\ NoOutput
    /\ UNCHANGED << Props, dialogVars, selectedProductId, fragments, effectPending, edits,
                    entered >>

\* the scheduler's task: the effect, when it has not run yet, and the
\* render of what is queued for the drafts.  When initialFragments is the
\* default [] that render leaves the effect to run once more
RunEffect ==
    /\ effectPending
    /\ fragments' = renderedDrafts(variant, initialFragments, selectedProductId, queued)
    /\ effectPending' = ~initialFragmentsGiven
    /\ queued' = << >>
    /\ edits' = rebased
    /\ rebased' = 0
    /\ NoOutput
    /\ UNCHANGED << Props, dialogVars, selectedProductId, entered >>

\* the caller renders the form again and passes a new array as
\* initialFragments (with the fragments it passed before), so a dependency
\* of the effect changed and the effect is to run.  Without the prop every
\* render has a new array anyway.
\* At default priority (sync = FALSE) the render also renders what is
\* queued for the drafts, and leaves the effect to a later task.
\* Inside a click of the caller (sync = TRUE) the render leaves the queued
\* seed out and the drafts on screen stay; the effect (one left from before
\* included) runs at its commit and queues setFragments(seed) behind what
\* is queued, so the next render of the drafts yields the seed
ParentRender(sync) ==
    /\ fragments' = (IF ~sync /\ effectPending
                     THEN renderedDrafts(variant, initialFragments, selectedProductId, queued)
                     ELSE fragments)
    /\ effectPending' = TRUE
    /\ queued' = (IF sync
                  THEN << Initialize(variant, initialFragments, selectedProductId) >>
                  ELSE << >>)
    /\ edits' = (IF ~sync /\ effectPending THEN rebased ELSE edits)
    /\ rebased' = 0
    /\ entered' = << >>
    /\ NoOutput
    /\ UNCHANGED << Props, dialogVars, selectedProductId >>

\* click on "Cancelar" or on the X: onCancel()
Cancel ==
    /\ NoOutput
    /\ UNCHANGED << Props, dialogVars, selectedProductId, fragments, effectPending, queued,
                    edits, rebased, entered >>

\* what the user and the caller can do to the form besides saving
Edit ==
    \/ \E p \in ProductIds : SwitchProduct(p)
    \/ AddDraft
    \/ \E index \in 1..Len(fragments) : RemoveDraft(index)
    \/ \E index \in 1..Len(fragments) :
         \/ \E q \in QuantityInputs : UpdateDraft(index, "quantity", q)
         \/ \E d \in DateInputs : UpdateDraft(index, "scheduledDate", d)
    \/ EffectTask
    \/ RunEffect
    \/ \E sync \in BOOLEAN : ParentRender(sync)
    \/ Cancel

Next == Edit \/ HandleSave

Spec == Init /\ [][Next]_vars

\* the form with handleSave also called as a function, whatever the drafts
\* are: the states its first branch (if (!isValid())) is decided on
NextCall == Edit \/ handleSave

SpecCall == Init /\ [][NextCall]_vars

\* the same form, with the history of the user's latest edit kept
InitTracked == InitForm /\ tracking = TRUE /\ DialogIdle

SpecTracked == InitTracked /\ [][Next]_vars

----------------------------------------------------------------------------
(* The state machine of the split dialog *)

\* no fragmentation form is on screen next to the dialog
FormIdle ==
    /\ variant = "partial"
    /\ initialFragmentsGiven = TRUE
    /\ initialFragments = << >>
    /\ selectedProductId = (IF Len(Products) > 0 THEN Products[1].id ELSE "")
    /\ fragments = Initialize(variant, initialFragments, selectedProductId)
    /\ effectPending = FALSE
    /\ queued = << >>
    /\ edits = 0
    /\ rebased = 0
    /\ saveCalled = FALSE
    /\ onSaveArg = << >>
    /\ toastMsg = "none"
    /\ tracking = FALSE
    /\ entered = << >>

InitDialog ==
    /\ FormIdle
    /\ dialog \in {"simple", "tracked"}
    /\ order \in Orders
    /\ open \in BOOLEAN
    /\ quantities = NoQuantities
    /\ loading = FALSE
    /\ inFlight = 0
    /\ onSplitArg = << >>
    /\ alertMsg = "none"

DialogProps == << dialog, order >>

\* the ids of the lines the dialog shows
LineIds == { productsOf(order)[i].id : i \in 1..Len(productsOf(order)) }

\* the number Input of a line: handleQuantityChange(product.id, e.target.value);
\* disabled={loading}, in the tracked dialog disabled={loading || isAllFragmented}
HandleQuantityChange(productId, value) ==
    /\ open
    /\ ~loading
    /\ dialog = "tracked" => getAvailableQuantity(order, productId) > 0
    /\ quantities' = With(quantities, productId,
                          clampQuantity(dialog, order, productId, value))
    /\ alertMsg' = "none"
    /\ UNCHANGED << formVars, DialogProps, open, loading, inFlight, onSplitArg >>

\* the plus button of a line (tracked dialog): incrementQuantity(product.id);
\* disabled={loading || currentQty >= availableQty || availableQty <= 0}
IncrementQuantity(productId) ==
    /\ open
    /\ dialog = "tracked"
    /\ ~loading
    /\ currentQty(quantities, productId) < getAvailableQuantity(order, productId)
    /\ getAvailableQuantity(order, productId) > 0
    /\ quantities' = With(quantities, productId, currentQty(quantities, productId) + 1)
    /\ alertMsg' = "none"
    /\ UNCHANGED << formVars, DialogProps, open, loading, inFlight, onSplitArg >>

\* the minus button of a line (tracked dialog): decrementQuantity(product.id);
\* disabled={loading || currentQty === 0}
DecrementQuantity(productId) ==
    /\ open
    /\ dialog = "tracked"
    /\ ~loading
    /\ currentQty(quantities, productId) # 0
    /\ quantities' = IF currentQty(quantities, productId) > 0
                     THEN With(quantities, productId, currentQty(quantities, productId) - 1)
                     ELSE quantities
    /\ alertMsg' = "none"
    /\ UNCHANGED << formVars, DialogProps, open, loading, inFlight, onSplitArg >>

\* the readings of Date.now() while handleSplit maps n lines
splitClocks(n) == IF n = 0 THEN { << >> } ELSE Clocks(n)

\* handleSplit with setQuantities({}) and onOpenChange(false) before the await
M_HandleSplit ==
    /\ open
    /\ ~buttonDisabled(loading)
    /\ IF ~hasQuantity(quantities)
       THEN /\ alertMsg' = "no_quantity"
            /\ loading' = FALSE
            /\ UNCHANGED << inFlight, onSplitArg, open, quantities >>
       ELSE IF hasExcess(dialog, order, quantities)
       THEN /\ alertMsg' = "excess"
            /\ loading' = FALSE
            /\ UNCHANGED << inFlight, onSplitArg, open, quantities >>
       ELSE /\ alertMsg' = "none"
            /\ loading' = TRUE
            /\ inFlight' = inFlight + 1
            /\ quantities' = NoQuantities
            /\ open' = FALSE
            /\ \E clock \in splitClocks(Len(enteredProducts(order, quantities))) :
                 onSplitArg' = splitFragments(order, quantities, clock)
    /\ UNCHANGED << formVars, DialogProps >>

\* click on "Fragmentar Pedido": handleSplit up to its await.  A failed
\* validation runs setLoading(true), the alert, the return and the finally
\* in one go.
HandleSplit ==
    /\ open
    /\ ~buttonDisabled(loading)
    /\ IF ~hasQuantity(quantities)
       THEN /\ alertMsg' = "no_quantity"
            /\ loading' = FALSE
            /\ UNCHANGED << inFlight, onSplitArg >>
       ELSE IF hasExcess(dialog, order, quantities)
       THEN /\ alertMsg' = "excess"
            /\ loading' = FALSE
            /\ UNCHANGED << inFlight, onSplitArg >>
       ELSE /\ alertMsg' = "none"
            /\ loading' = TRUE
            /\ inFlight' = inFlight + 1
            /\ \E clock \in splitClocks(Len(enteredProducts(order, quantities))) :
                 onSplitArg' = splitFragments(order, quantities, clock)
    /\ UNCHANGED << formVars, DialogProps, open, quantities >>

\* the promise of onSplit resolves: the rest of the try block, then finally
SplitResolved ==
    /\ inFlight > 0
    /\ quantities' = NoQuantities
    /\ open' = FALSE
    /\ loading' = FALSE
    /\ inFlight' = inFlight - 1
    /\ onSplitArg' = << >>
    /\ alertMsg' = "none"
    /\ order' \in ordersAfterSplit(order, onSplitArg)
    /\ UNCHANGED << formVars, dialog >>

\* a rejection handled like a resolution: the quantities cleared, the dialog closed
M_SplitRejectedCloses ==
    /\ inFlight > 0
    /\ alertMsg' = "error"
    /\ quantities' = NoQuantities
    /\ open' = FALSE
    /\ loading' = FALSE
    /\ inFlight' = inFlight - 1
    /\ onSplitArg' = << >>
    /\ UNCHANGED << formVars, DialogProps >>

\* the catch block without the finally block
M_SplitRejected ==
    /\ inFlight > 0
    /\ alertMsg' = "error"
    /\ inFlight' = inFlight - 1
    /\ onSplitArg' = << >>
    /\ UNCHANGED << formVars, DialogProps, open, quantities, loading >>

\* the promise of onSplit rejects: the catch block, then finally
SplitRejected ==
    /\ inFlight > 0
    /\ alertMsg' = "error"
    /\ loading' = FALSE
    /\ inFlight' = inFlight - 1
    /\ onSplitArg' = << >>
    /\ UNCHANGED << formVars, DialogProps, open, quantities >>

\* click on "Cancelar": onOpenChange(false), which the caller stores in open
CancelDialog ==
    /\ open
    /\ ~buttonDisabled(loading)
    /\ open' = FALSE
    /\ alertMsg' = "none"
    /\ UNCHANGED << formVars, DialogProps, quantities, loading, inFlight, onSplitArg >>

\* Escape, the X or a click outside: the Dialog's own onOpenChange(false)
DismissDialog ==
    /\ open
    /\ open' = FALSE
    /\ alertMsg' = "none"
    /\ UNCHANGED << formVars, DialogProps, quantities, loading, inFlight, onSplitArg >>

\* the caller shows the dialog again: open becomes true, the component and
\* its useState cells are the ones it had
ReopenDialog ==
    /\ ~open
    /\ open' = TRUE
    /\ alertMsg' = "none"
    /\ UNCHANGED << formVars, DialogProps, quantities, loading, inFlight, onSplitArg >>

\* the caller passes another order to the closed dialog; the component and
\* its useState cells are the ones it had
ChangeOrder(o) ==
    /\ ~open
    /\ inFlight = 0
    /\ o.id # order.id
    /\ order' = o
    /\ alertMsg' = "none"
    /\ UNCHANGED << formVars, dialog, open, quantities, loading, inFlight, onSplitArg >>

NextDialog ==
    \/ \E productId \in LineIds : \E value \in TextInputs :
         HandleQuantityChange(productId, value)
    \/ \E productId \in LineIds : IncrementQuantity(productId)
    \/ \E productId \in LineIds : DecrementQuantity(productId)
    \/ HandleSplit
    \/ SplitResolved
    \/ SplitRejected
    \/ CancelDialog
    \/ DismissDialog
    \/ ReopenDialog
    \/ \E o \in Orders : ChangeOrder(o)

SpecDialog == InitDialog /\ [][NextDialog]_vars

\* the promise returned by onSplit settles
SpecDialogFair ==
    InitDialog /\ [][NextDialog]_vars /\ WF_vars(SplitResolved \/ SplitRejected)

----------------------------------------------------------------------------
(* The properties *)

\* the sum of the quantities of the drafts, counted from the last one
RECURSIVE DraftTotal(_)
DraftTotal(frags) ==
    IF Len(frags) = 0 THEN 0
    ELSE DraftTotal(SubSeq(frags, 1, Len(frags) - 1))
           + (IF "quantity" \in DOMAIN frags[Len(frags)] THEN frags[Len(frags)].quantity ELSE 0)

\* every draft has a quantity > 0 and a scheduled date
AllDraftsFilled(frags) ==
    \A i \in 1..Len(frags) :
        /\ "quantity" \in DOMAIN frags[i]
        /\ frags[i].quantity > 0
        /\ "scheduledDate" \in DOMAIN frags[i]

\* the total quantity and the total value of the product with this id
ProductIndex(sel) == (CHOOSE i \in 1..Len(Products) : Products[i].id = sel)
QuantityOf(sel) == Products[ProductIndex(sel)].quantity
PriceOf(sel) == Products[ProductIndex(sel)].total_price

\* C1: in the strict form, the drafts are valid if and only if their quantities
\* sum to the selected product's total quantity exactly and every draft has a
\* quantity > 0 and a scheduled date.
C1_StrictValidIffExactTotal ==
    variant = "strict" =>
        (isValid(variant, fragments, selectedProductId)
            <=> /\ DraftTotal(fragments) = QuantityOf(selectedProductId)
                /\ AllDraftsFilled(fragments))

\* C1's case: the strict form has saved drafts of 40 and 60 of a product of 100
C1_Witness ==
    /\ variant = "strict"
    /\ saveCalled
    /\ QuantityOf(selectedProductId) = 100
    /\ Len(fragments) = 2
    /\ fragments[1].quantity = 40
    /\ fragments[2].quantity = 60

\* C2: in the partial form, the drafts are valid if and only if their quantities
\* sum to more than 0 and at most the product's total quantity and every draft
\* has a quantity > 0 and a scheduled date; drafts whose total exceeds the
\* product's total quantity are valid in neither form.
C2_PartialValidIffWithinTotal ==
    /\ variant = "partial" =>
        (isValid(variant, fragments, selectedProductId)
            <=> /\ 0 < DraftTotal(fragments)
                /\ DraftTotal(fragments) <= QuantityOf(selectedProductId)
                /\ AllDraftsFilled(fragments))
    /\ DraftTotal(fragments) > QuantityOf(selectedProductId) =>
        /\ ~isValidStrict(fragments, selectedProductId)
        /\ ~isValidPartial(fragments, selectedProductId)

\* C2's case: the partial form has refused one draft of 15 of a product of 10
C2_Witness ==
    /\ variant = "partial"
    /\ QuantityOf(selectedProductId) = 10
    /\ Len(fragments) = 1
    /\ fragments[1].quantity = 15
    /\ saveDisabled(variant, fragments, selectedProductId)

\* v is the number q / T * V (0 when T = 0)
IsProportional(v, q, T, V) ==
    IF T = 0 THEN v.num = 0 /\ v.den = 1
    ELSE v.den > 0 /\ v.num * T = q * V * v.den

\* the quantities a value is shown or saved for: the drafts' and the inputs'
ShownQuantities ==
    { Get(fragments[i], "quantity", 0) : i \in 1..Len(fragments) } \cup QuantityInputs

\* C3: calculateFragmentValue(q) is q / T * V for the selected product's total
\* quantity T and total value V, and 0 when T = 0, in both forms; with T = 100
\* and V = 500, quantities 40 and 60 give 200 and 300.
C3_ValueIsProportional ==
    /\ \A q \in ShownQuantities :
         IsProportional(calculateFragmentValue(q, selectedProductId), q,
                        QuantityOf(selectedProductId), PriceOf(selectedProductId))
    /\ (QuantityOf(selectedProductId) = 100 /\ PriceOf(selectedProductId) = 500) =>
         /\ calculateFragmentValue(40, selectedProductId) = [num |-> 200, den |-> 1]
         /\ calculateFragmentValue(60, selectedProductId) = [num |-> 300, den |-> 1]

\* C3's case: drafts of 40 and 60 of a product of 100 worth 500 were saved with
\* the values 200 and 300
C3_Witness ==
    /\ saveCalled
    /\ QuantityOf(selectedProductId) = 100
    /\ PriceOf(selectedProductId) = 500
    /\ \E i, j \in 1..Len(onSaveArg) :
         /\ onSaveArg[i].quantity = 40 /\ onSaveArg[i].value = [num |-> 200, den |-> 1]
         /\ onSaveArg[j].quantity = 60 /\ onSaveArg[j].value = [num |-> 300, den |-> 1]

\* C4: there is always at least one draft, and removing a draft when exactly
\* one is left changes nothing.  (removeFragment tests the length of the
\* drafts on screen, and its update filters the drafts it is applied to.)
C4_AtLeastOneDraft ==
    /\ [](Len(fragments) >= 1)
    /\ [][\A index \in 1..(Len(fragments) + 1) :
            (Len(fragments) = 1 /\ RemoveDraft(index)) => fragments' = fragments]_vars

\* C5: the drafts the user entered for a product are still in the list handed
\* to onSave after a switch to another product.
C5_SwitchKeepsEnteredDrafts ==
    (/\ saveCalled
     /\ entered # << >>
     /\ entered.switched
     /\ entered.productId # selectedProductId) =>
        \A i \in 1..Len(entered.drafts) :
            \E j \in 1..Len(onSaveArg) :
                /\ onSaveArg[j].productId = entered.productId
                /\ onSaveArg[j].quantity = Get(entered.drafts[i], "quantity", 0)
                /\ Get(onSaveArg[j], "scheduledDate", Today)
                     = Get(entered.drafts[i], "scheduledDate", Today)

\* the drafts are valid under the rule of the form they are in
ValidByRule ==
    /\ AllDraftsFilled(fragments)
    /\ IF variant = "strict"
       THEN DraftTotal(fragments) = QuantityOf(selectedProductId)
       ELSE /\ 0 < DraftTotal(fragments)
            /\ DraftTotal(fragments) <= QuantityOf(selectedProductId)

\* C6: handleSave on drafts that are not valid does not call onSave, emits an
\* error, leaves the drafts and the selection as they are, and returns.
C6_InvalidSaveIsRefused ==
    [][(~ValidByRule /\ handleSave) =>
          /\ ~saveCalled'
          /\ onSaveArg' = << >>
          /\ toastMsg' # "none"
          /\ fragments' = fragments
          /\ selectedProductId' = selectedProductId]_vars

\* C6's case: a save was refused with an error
C6_Witness ==
    /\ ~ValidByRule
    /\ toastMsg # "none"
    /\ ~saveCalled

\* the positions in initialFragments of the fragments of other products
OtherPositions ==
    { i \in 1..Len(initialFragments) : initialFragments[i].productId # selectedProductId }

\* the n-th smallest member of a set of numbers
NthOf(S, n) == CHOOSE x \in S : Cardinality({ y \in S : y < x }) = n - 1

\* how many passed-through fragments the saved list starts with
PassedThrough == Len(onSaveArg) - Len(fragments)

\* C7: the list handed to onSave is the initial fragments of the other products,
\* unchanged and in their order, followed by one fragment per draft in the
\* drafts' order; no initial fragment of the selected product is passed through.
C7_SavedIsOthersThenDrafts ==
    saveCalled =>
        /\ PassedThrough = Cardinality(OtherPositions)
        /\ \A n \in 1..PassedThrough :
             /\ onSaveArg[n] = initialFragments[NthOf(OtherPositions, n)]
             /\ onSaveArg[n].productId # selectedProductId
        /\ \A i \in 1..Len(fragments) :
             /\ onSaveArg[PassedThrough + i].productId = selectedProductId
             /\ onSaveArg[PassedThrough + i].quantity = Get(fragments[i], "quantity", 0)
             /\ onSaveArg[PassedThrough + i].fragmentNumber = fragments[i].fragmentNumber
             /\ onSaveArg[PassedThrough + i].scheduledDate = fragments[i].scheduledDate

\* C7's case: two fragments of another product passed through, two drafts saved
C7_Witness ==
    /\ saveCalled
    /\ Cardinality(OtherPositions) = 2
    /\ Len(fragments) = 2
    /\ Len(productFragments(initialFragments, selectedProductId)) = 1

\* C8: no two fragments of the list handed to onSave have the same id.
C8_SavedIdsDistinct ==
    saveCalled =>
        \A i, j \in 1..Len(onSaveArg) : i # j => onSaveArg[i].id # onSaveArg[j].id

\* C9: a saved draft keeps its id when it has one, carries the order's id and
\* the selected product's id, and its value is the proportional value of its
\* own quantity whatever value the draft held.
C9_FinalizedFields ==
    saveCalled =>
        \A i \in 1..Len(fragments) :
            LET saved == onSaveArg[PassedThrough + i]
            IN  /\ ("id" \in DOMAIN fragments[i] /\ fragments[i].id # << >>)
                      => saved.id = fragments[i].id
                /\ saved.orderId = OrderId
                /\ saved.productId = selectedProductId
                /\ IsProportional(saved.value, saved.quantity,
                                  QuantityOf(selectedProductId), PriceOf(selectedProductId))

\* C9's case: a draft with an id and a stored value that is not the
\* proportional one was saved
C9_Witness ==
    /\ saveCalled
    /\ \E i \in 1..Len(fragments) :
         /\ "id" \in DOMAIN fragments[i]
         /\ "value" \in DOMAIN fragments[i]
         /\ ~IsProportional(fragments[i].value, fragments[i].quantity,
                            QuantityOf(selectedProductId), PriceOf(selectedProductId))

\* the positions in the saved list of the selected product's fragments
SavedOfSelected ==
    { j \in 1..Len(onSaveArg) : onSaveArg[j].productId = selectedProductId }

RECURSIVE SavedTotal(_)
\* the sum of the quantities at these positions of the saved list
SavedTotal(S) ==
    IF S = {} THEN 0
    ELSE LET j == CHOOSE x \in S : TRUE
         IN  onSaveArg[j].quantity + SavedTotal(S \ {j})

\* C10: in the list handed to onSave, the selected product's fragments each have
\* a quantity > 0, and their quantities sum to the product's total quantity in
\* the strict form and to more than 0 and at most that in the partial form.
C10_SavedQuantitiesConsistent ==
    saveCalled =>
        /\ \A j \in SavedOfSelected : onSaveArg[j].quantity > 0
        /\ IF variant = "strict"
           THEN SavedTotal(SavedOfSelected) = QuantityOf(selectedProductId)
           ELSE /\ 0 < SavedTotal(SavedOfSelected)
                /\ SavedTotal(SavedOfSelected) <= QuantityOf(selectedProductId)

\* C10's case: the partial form saved less than the product's total quantity
C10_Witness ==
    /\ saveCalled
    /\ variant = "partial"
    /\ Cardinality(SavedOfSelected) = 2
    /\ SavedTotal(SavedOfSelected) < QuantityOf(selectedProductId)

----------------------------------------------------------------------------
(* The properties of the split dialog *)

\* C11: while a split is pending (from the start of handleSplit until onSplit
\* settles) loading is true and the split and cancel buttons are disabled,
\* so that onSplit is never invoked a second time while a call is pending:
\* at most one call is in flight.
C11_NoSecondSplitWhilePending ==
    /\ inFlight > 0 => (loading /\ buttonDisabled(loading))
    /\ inFlight <= 1
    /\ inFlight > 0 => (~ENABLED HandleSplit /\ ~ENABLED CancelDialog)

\* a split is pending while the dialog is on screen
C11_Witness ==
    /\ inFlight = 1
    /\ open
    /\ loading
    /\ Len(onSplitArg) > 0

\* C12: when onSplit rejects, handleSplit catches the failure: the dialog is
\* not closed, the quantities are unchanged and loading is false again.
C12_RejectionKeepsDialog ==
    [][(inFlight' < inFlight /\ alertMsg' = "error") =>
          /\ open' = open
          /\ quantities' = quantities
          /\ loading
          /\ ~loading']_vars

\* after a rejection: the error alert, the dialog still open with the
\* quantities that were sent, loading false
C12_Witness ==
    /\ alertMsg = "error"
    /\ open
    /\ hasQuantity(quantities)
    /\ ~loading
    /\ inFlight = 0

\* C13: cancelling (closing) the dialog never invokes onSplit and discards
\* all draft state: when the dialog is opened again it shows no quantity
\* entered before.
C13_CancelDiscardsDraftState ==
    [][/\ (CancelDialog \/ DismissDialog) => inFlight' = inFlight
       /\ ReopenDialog => \A id \in LineIds : currentQty(quantities', id) = 0]_vars

\* some entered quantity is greater than 0
SomeEntered == \E id \in DOMAIN quantities : quantities[id] > 0

\* no line's entered quantity exceeds its limit: the line's quantity in the
\* simple dialog, its available quantity in the tracked one
WithinLimits ==
    \A i \in 1..Len(productsOf(order)) :
        currentQty(quantities, productsOf(order)[i].id)
          <= (IF dialog = "simple" THEN productsOf(order)[i].quantity
              ELSE getAvailableQuantity(order, productsOf(order)[i].id))

\* C18: handleSplit invokes onSplit only if at least one entered quantity is
\* greater than 0 and no line's entered quantity exceeds its limit; when
\* either check fails onSplit is not invoked, an alert is shown, the
\* quantities and the open state are unchanged and loading ends false.
C18_SplitOnlyWhenChecksPass ==
    [][HandleSplit =>
          /\ inFlight' > inFlight => (SomeEntered /\ WithinLimits)
          /\ ~(SomeEntered /\ WithinLimits) =>
                /\ inFlight' = inFlight
                /\ onSplitArg' = onSplitArg
                /\ alertMsg' \in {"no_quantity", "excess"}
                /\ quantities' = quantities
                /\ open' = open
                /\ ~loading']_vars

\* a split refused because of a quantity above its limit
C18_Witness ==
    /\ alertMsg = "excess"
    /\ SomeEntered
    /\ ~WithinLimits
    /\ open
    /\ ~loading
    /\ inFlight = 0

\* the positions in order.products of the lines with an entered quantity > 0
EnteredPositions ==
    { i \in 1..Len(productsOf(order)) :
        currentQty(quantities, productsOf(order)[i].id) > 0 }

\* the number of fragments the order has already
ExistingCount == IF "fragments" \in DOMAIN order THEN Len(order.fragments) ELSE 0

\* C19: the list handed to onSplit has exactly one fragment for each line of
\* the order with an entered quantity > 0, in the order of the lines; the
\* fragment at position n (from 1) has the entered quantity, status pending,
\* progress 0, fragment_number = existing fragments + n and value =
\* (total_price / quantity) * entered quantity, the line's quantity not
\* being 0.  (While the call is in flight the quantities are the ones sent.)
C19_SplitListIsEnteredLines ==
    inFlight > 0 =>
        /\ Len(onSplitArg) = Cardinality(EnteredPositions)
        /\ \A n \in 1..Len(onSplitArg) :
             /\ onSplitArg[n].product_name
                  = productsOf(order)[NthOf(EnteredPositions, n)].product_name
             /\ onSplitArg[n].size = productsOf(order)[NthOf(EnteredPositions, n)].size
             /\ onSplitArg[n].quantity
                  = currentQty(quantities, productsOf(order)[NthOf(EnteredPositions, n)].id)
             /\ onSplitArg[n].status = "pending"
             /\ onSplitArg[n].progress = 0
             /\ onSplitArg[n].fragment_number = ExistingCount + n
             /\ productsOf(order)[NthOf(EnteredPositions, n)].quantity # 0
             /\ onSplitArg[n].value.den # 0
             /\ onSplitArg[n].value.num * productsOf(order)[NthOf(EnteredPositions, n)].quantity
                  = onSplitArg[n].value.den * onSplitArg[n].quantity
                      * productsOf(order)[NthOf(EnteredPositions, n)].total_price

\* a split of the second line alone of an order without fragments
C19_Witness ==
    /\ inFlight = 1
    /\ order.id = "o2"
    /\ EnteredPositions = {2}
    /\ Len(onSplitArg) = 1
    /\ onSplitArg[1].fragment_number = 1
    /\ onSplitArg[1].quantity = 3

\* C20: every invocation of handleSplit eventually leaves loading false, on
\* every path (validation failure, onSplit resolved, onSplit rejected): loading
\* is never true once no call is in flight, and a loading dialog gets out of
\* loading when the promise settles.
C20_LoadingEndsFalse ==
    /\ [](inFlight = 0 => ~loading)
    /\ loading ~> ~loading

\* after a refused split (nothing entered) loading is false
C20_Witness ==
    /\ alertMsg = "no_quantity"
    /\ ~loading
    /\ inFlight = 0
    /\ open

\* the order as the caller passed it first
OriginalOrder == CHOOSE o \in Orders : o.id = order.id

\* C21: handleSplit clears the entered quantities and closes the dialog
\* (onOpenChange(false)) only after onSplit has resolved, and always then:
\* the step that calls onSplit leaves both as they are, a rejection too
\* (C12), nothing clears the quantities but a resolution, and while a call
\* is pending the dialog closes only by the resolution or by the user's
\* dismissal (Escape, a click outside).
C21_ClearedAndClosedOnResolution ==
    [][/\ SplitResolved => (quantities' = NoQuantities /\ ~open')
       /\ HandleSplit => (quantities' = quantities /\ open' = open)
       /\ (quantities # NoQuantities /\ quantities' = NoQuantities) =>
             (inFlight > 0 /\ inFlight' < inFlight /\ alertMsg' # "error")
       /\ (inFlight > 0 /\ quantities' # quantities) => SplitResolved
       /\ (inFlight > 0 /\ open /\ ~open') => (SplitResolved \/ DismissDialog)]_vars

\* a split of the order without fragments has resolved and was recorded: the
\* quantities are cleared and the dialog is closed
C21_Witness ==
    /\ order.id = "o2"
    /\ Len(fragmentsOf(order)) > 0
    /\ quantities = NoQuantities
    /\ ~open
    /\ ~loading
    /\ inFlight = 0

RECURSIVE RecordedQuantity(_, _)
\* the total quantity of the fragments in frs whose product_id is one of ids
RecordedQuantity(frs, ids) ==
    IF Len(frs) = 0 THEN 0
    ELSE (IF Get(Head(frs), "product_id", "") \in ids THEN Head(frs).quantity ELSE 0)
           + RecordedQuantity(Tail(frs), ids)

\* the names a fragment may carry for a line: the line's id, its product_id
NamesOf(product) ==
    {product.id} \cup (IF "product_id" \in DOMAIN product THEN {product.product_id} ELSE {})

\* the fragments recorded in the order for each of its lines are within the
\* line's quantity
WithinQuantity(ord) ==
    \A i \in 1..Len(productsOf(ord)) :
        RecordedQuantity(fragmentsOf(ord), NamesOf(productsOf(ord)[i]))
          <= productsOf(ord)[i].quantity

\* C22: in the tracked dialog, when the fragments emitted by the successful
\* splits are appended to order.fragments, the total quantity of the
\* fragments recorded for each product of the order never exceeds the
\* product's quantity, given that it did not in the order as first passed.
C22_RecordedWithinQuantity ==
    (dialog = "tracked" /\ WithinQuantity(OriginalOrder)) => WithinQuantity(order)

\* the same, for orders no two lines of which are about the same product
C22_HoldsWithoutSharedProduct ==
    (/\ dialog = "tracked"
     /\ WithinQuantity(OriginalOrder)
     /\ \A i, j \in 1..Len(productsOf(order)) :
          i # j => NamesOf(productsOf(order)[i]) \cap NamesOf(productsOf(order)[j]) = {})
      => WithinQuantity(order)

\* a step of one of the three quantity handlers
QuantityEdit ==
    \/ \E id \in LineIds, value \in TextInputs : HandleQuantityChange(id, value)
    \/ \E id \in LineIds : IncrementQuantity(id)
    \/ \E id \in LineIds : DecrementQuantity(id)

\* the quantity q the dialog holds for each line of the order (quantities[id] || 0)
\* is in 0..available, in the simple dialog in 0.. only
QuantitiesInRange(d, ord, q) ==
    \A id \in { productsOf(ord)[i].id : i \in 1..Len(productsOf(ord)) } :
        /\ 0 <= currentQty(q, id)
        /\ d = "tracked" => currentQty(q, id) <= getAvailableQuantity(ord, id)

\* what handleQuantityChange stores for a line is never negative, whatever is typed
StoredNeverNegative(d, ord) ==
    \A id \in { productsOf(ord)[i].id : i \in 1..Len(productsOf(ord)) },
       value \in TextInputs : 0 <= clampQuantity(d, ord, id, value)

\* C23: after every handleQuantityChange, incrementQuantity and
\* decrementQuantity the quantity held for each product is at least 0, and
\* in the tracked dialog at most the product's available quantity, also
\* for an order whose recorded fragments exceed a product's quantity.
C23_QuantitiesStayInRange ==
    [][QuantityEdit =>
          /\ QuantitiesInRange(dialog, order, quantities')
          /\ StoredNeverNegative(dialog, order)]_vars

\* the first half alone, in the states the controls allow
C23_EnteredNeverNegative ==
    \A id \in DOMAIN quantities : 0 <= quantities[id]

\* C24: onSplit is never invoked with an empty list of fragments, also when
\* the order prop has changed to another order while the dialog holds
\* quantities entered for the previous one.
C24_SplitListNeverEmpty ==
    inFlight > 0 => Len(onSplitArg) > 0

\* the same while the dialog has been shown one order only
C24_HoldsForTheFirstOrder ==
    (inFlight > 0 /\ DOMAIN quantities \subseteq LineIds) => Len(onSplitArg) > 0

\* C25: when the fragments of a successful split are recorded in the order,
\* the available quantity of every line that no fragment was created from
\* stays what it was, also when that line has the product_id of a split line.
C25_OtherLinesKeepAvailable ==
    [][(dialog = "tracked" /\ SplitResolved) =>
          \A i \in (1..Len(productsOf(order))) \ EnteredPositions :
              getAvailableQuantity(order', productsOf(order)[i].id)
                = getAvailableQuantity(order, productsOf(order)[i].id)]_vars

\* the same for the lines that share their product with no other line
C25_HoldsForUnsharedLines ==
    [][(dialog = "tracked" /\ SplitResolved) =>
          \A i \in (1..Len(productsOf(order))) \ EnteredPositions :
              (\A j \in EnteredPositions :
                  NamesOf(productsOf(order)[i]) \cap NamesOf(productsOf(order)[j]) = {})
                => getAvailableQuantity(order', productsOf(order)[i].id)
                     = getAvailableQuantity(order, productsOf(order)[i].id)]_vars

----------------------------------------------------------------------------
(* More properties of the form *)

\* C26: the drafts are seeded again only when the selected product, the
\* initial fragments passed or the product's quantity change: what
\* AddDraft, RemoveDraft or UpdateDraft has set for the selected product is
\* not replaced by a re-initialization while that product stays selected,
\* also when the caller passes no initialFragments.
C26_EditsNotOverwritten ==
    [][(RunEffect /\ entered # << >> /\ ~entered.switched) => fragments' = fragments]_vars

\* the rest of C26: a re-initialization becomes pending only in a step that
\* changes the selected product or passes initialFragments anew, and once
\* it has run none is pending
C26_SeededOnlyOnChange ==
    [][/\ (effectPending' /\ ~effectPending) =>
            (\/ selectedProductId' # selectedProductId
                \/ \E sync \in BOOLEAN : ParentRender(sync))
       /\ RunEffect => ~effectPending']_vars

\* all of C26 when the caller passes initialFragments
C26_HoldsWhenListPassed ==
    [][initialFragmentsGiven =>
          /\ (RunEffect /\ entered # << >> /\ ~entered.switched) => fragments' = fragments
          /\ (effectPending' /\ ~effectPending) =>
               (\/ selectedProductId' # selectedProductId
                \/ \E sync \in BOOLEAN : ParentRender(sync))
          /\ RunEffect => ~effectPending']_vars

\* the positions in initialFragments of the fragments of the product sel
SeedPositions(sel) ==
    { i \in 1..Len(initialFragments) : Get(initialFragments[i], "productId", "") = sel }

\* the drafts are what the claim says Initialize yields for the product sel
SeededAsClaimed(frags, sel) ==
    IF SeedPositions(sel) # {}
    THEN /\ Len(frags) = Cardinality(SeedPositions(sel))
         /\ \A n \in 1..Len(frags) :
              /\ frags[n].id = initialFragments[NthOf(SeedPositions(sel), n)].id
              /\ frags[n].quantity = initialFragments[NthOf(SeedPositions(sel), n)].quantity
              /\ frags[n].productId = sel
    ELSE /\ Len(frags) = 1
         /\ frags[1].fragmentNumber = 1
         /\ frags[1].quantity = Max(1, (QuantityOf(sel) + 3) \div 4)
         /\ frags[1].status = "pending"
         /\ frags[1].progress = 0
         /\ frags[1].productId = sel

\* C14: Initialize (at mount and in the effect that follows every change of
\* the selected product)
\* yields the existing fragments of the selected product, in the same order
\* and with the same quantities, when there is at least one; otherwise exactly
\* one draft with fragmentNumber 1, quantity max(1, ceil(T / 4)), status
\* pending, progress 0 and the selected product as productId.  Stated of the
\* drafts at mount, of the drafts the effect queues, and of the drafts the
\* render of an effect's update alone leaves.
C14_InitializeSeeds ==
    /\ SeededAsClaimed(fragments, selectedProductId)
    /\ []((queued # << >> /\ rebased = 0) => SeededAsClaimed(queued[1], selectedProductId))
    /\ [][(RunEffect /\ rebased = 0) => SeededAsClaimed(fragments', selectedProductId')]_vars

\* a product selected after another one and seeded by the effect: the one
\* with quantity 10 has its persisted fragment, the one with quantity 0 the
\* default draft of quantity 1
C14_Witness ==
    /\ ~effectPending
    /\ Len(fragments) = 1
    /\ \/ /\ selectedProductId = "pB"
          /\ SeedPositions("pB") # {}
          /\ fragments[1].quantity = 4
       \/ /\ selectedProductId = "pC"
          /\ SeedPositions("pC") = {}
          /\ fragments[1].quantity = 1

\* the scheduled date of the last draft, a day before today when it has none
\* (or when there is no draft)
LastDate(frags) ==
    IF Len(frags) = 0 THEN Today - 1
    ELSE Get(frags[Len(frags)], "scheduledDate", Today - 1)

\* C15: AddDraft appends exactly one draft at the end and leaves the earlier
\* drafts unchanged; the new draft has fragmentNumber = previous count + 1,
\* quantity 1, status pending, progress 0 and a scheduled date one day after
\* the previous last draft's date, never before today.
C15_AddDraftAppends ==
    [][AddDraft =>
          /\ Len(fragments') = Len(fragments) + 1
          /\ SubSeq(fragments', 1, Len(fragments)) = fragments
          /\ fragments'[Len(fragments')].fragmentNumber = Len(fragments) + 1
          /\ fragments'[Len(fragments')].quantity = 1
          /\ fragments'[Len(fragments')].status = "pending"
          /\ fragments'[Len(fragments')].progress = 0
          /\ fragments'[Len(fragments')].scheduledDate =
               Max(Today, LastDate(fragments) + 1)]_vars

\* the fields of a draft other than one
OtherFields(fragment, field) == DOMAIN fragment \ {field}

\* the drafts the form holds once UpdateDraft(index, field, value) has run
AfterUpdate(index, field, value) ==
    updateFragment(fragments, index, field, value)

\* the frame of one update: after holds what before held, but for the named
\* field of the draft at index
OnlyFieldChanged(before, after, index, field) ==
    /\ Len(after) = Len(before)
    /\ \A i \in 1..Len(before) :
         IF i = index
         THEN /\ OtherFields(after[i], field) = OtherFields(before[i], field)
              /\ \A k \in OtherFields(before[i], field) : after[i][k] = before[i][k]
         ELSE after[i] = before[i]
    /\ index \notin 1..Len(before) => after = before

\* C16: UpdateDraft(index, field, value) changes only the named field of the
\* draft at index: every other field of that draft, every other draft, the
\* count and the order are unchanged, and an index outside the list changes
\* nothing.  Stated of every UpdateDraft that can run in a reachable state.
C16_UpdateChangesOnlyField ==
    [](\A index \in 0..(Len(fragments) + 1) :
         /\ \A value \in QuantityInputs :
              LET after == AfterUpdate(index, "quantity", value)
              IN  OnlyFieldChanged(fragments, after, index, "quantity")
         /\ \A value \in DateInputs :
              LET after == AfterUpdate(index, "scheduledDate", value)
              IN  OnlyFieldChanged(fragments, after, index, "scheduledDate"))

\* the first of the two persisted fragments of A has got another quantity;
\* its other fields and the second fragment are as they were passed
C16_Witness ==
    /\ selectedProductId = "pA"
    /\ initialFragments = PersistedFragments
    /\ Len(fragments) = 2
    /\ fragments[1].quantity = 15
    /\ fragments[1].status = "in_progress"
    /\ fragments[2].quantity = 60

\* C17: an invalid save of the partial form reports the zero-total message
\* exactly when the sum of the quantities is 0, the excess message exactly
\* when the sum is greater than T, and the missing-required-fields message in
\* every remaining invalid case.
C17_PartialErrorMessage ==
    (variant = "partial" /\ toastMsg # "none") =>
        /\ toastMsg = "zero_total" <=> DraftTotal(fragments) = 0
        /\ toastMsg = "excess_total" <=> DraftTotal(fragments) > QuantityOf(selectedProductId)
        /\ toastMsg = "required_fields" <=>
             (DraftTotal(fragments) # 0 /\ DraftTotal(fragments) <= QuantityOf(selectedProductId))
        /\ ~ValidByRule

\* a refused save whose total is within (0, T]: a draft without a quantity > 0
C17_Witness ==
    /\ variant = "partial"
    /\ toastMsg = "required_fields"
    /\ DraftTotal(fragments) > 0
    /\ ~saveCalled
====
